---- MODULE Spec2Model ----
(***************************************************************************)
(* Model of doc_steward.py: the AST-based docstring extractor, the flat    *)
(* entity list, the coverage report and the docstring inserter.            *)
(*                                                                         *)
(* A file is a sequence of physical lines.  A physical line is a record    *)
(* that keeps what the code and the Python parser look at: its kind, its   *)
(* indentation (in spaces), whether it contains a ':' character, and, for  *)
(* a logical line spread over several physical lines (a wrapped header, a  *)
(* triple-quoted string), which part of the logical line it is.            *)
(***************************************************************************)
EXTENDS Integers, Sequences, FiniteSets, TLC

(* ------------------------------------------------------------------ *)
(* Physical lines                                                     *)
(* ------------------------------------------------------------------ *)

\* One physical line of a source file.
\*   k      "hdr" (a line of a def/class header), "str" (a line of a string
\*          literal expression statement), "stmt" (another simple statement),
\*          "blank", "bad" (a line that is not valid Python)
\*   ind    number of leading spaces
\*   colon  whether the line contains the character ':'
\*   part, of   the line is physical line `part` of the `of` lines of its
\*          logical line
\*   dk, name, args, inl   for a header: "def"/"class", the declared name, the
\*          parameter names, and whether the body follows the ':' on the
\*          header line itself (def f(): return 1)
\*   text   for a string line: the text the line contributes to the literal
PLine(k, ind, colon, part, of, dk, name, args, inl, text) ==
    [k |-> k, ind |-> ind, colon |-> colon, part |-> part, of |-> of,
     dk |-> dk, name |-> name, args |-> args, inl |-> inl, text |-> text]

HdrLine(dk, name, args, ind, part, of, colon, inl) ==
    PLine("hdr", ind, colon, part, of, dk, name, args, inl, "")

StrLine(ind, part, of, colon, text) ==
    PLine("str", ind, colon, part, of, "", "", <<>>, FALSE, text)

StmtLine(ind) == PLine("stmt", ind, FALSE, 1, 1, "", "", <<>>, FALSE, "")

BlankLine == PLine("blank", 0, FALSE, 1, 1, "", "", <<>>, FALSE, "")

BadLine == PLine("bad", 0, FALSE, 1, 1, "", "", <<>>, FALSE, "")

(* ------------------------------------------------------------------ *)
(* ast.parse: physical lines -> logical lines -> tree                 *)
(* ------------------------------------------------------------------ *)

\* Python's None, as a docstring value.
None == "<None>"

\* inspect.cleandoc, as ast.get_docstring applies it: a literal that holds
\* only whitespace cleans to the empty string.
cleandoc(text) == IF text \in {"", " "} THEN "" ELSE text

\* The index of the physical line that closes the string literal opened at
\* line i (0 when the literal is never closed).  Everything between the
\* opening and the closing line is content of the literal.
RECURSIVE StrClose(_, _, _)
StrClose(phys, i, j) ==
    IF j > Len(phys) THEN 0
    ELSE IF phys[j].k = "str" /\ phys[j].part = phys[j].of
              /\ phys[j].of = phys[i].of
         THEN j
         ELSE StrClose(phys, i, j + 1)

\* The text of the string literal on physical lines i..j.
RECURSIVE StrText(_, _, _)
StrText(phys, i, j) ==
    IF i > j THEN ""
    ELSE IF cleandoc(phys[i].text) # "" THEN phys[i].text
         ELSE StrText(phys, i + 1, j)

\* Whether the header that starts at physical line i is complete: its `of`
\* lines follow one another with nothing between them (inside the open
\* parenthesis of a header, only the header's own continuation lines parse).
HeaderComplete(phys, i) ==
    \A m \in 0 .. (phys[i].of - 1) :
        /\ i + m <= Len(phys)
        /\ phys[i + m].k = "hdr"
        /\ phys[i + m].part = m + 1
        /\ phys[i + m].of = phys[i].of
        /\ phys[i + m].name = phys[i].name

LogicalLine(k, ind, lineno, last, x, text) ==
    [k |-> k, ind |-> ind, lineno |-> lineno, last |-> last,
     dk |-> x.dk, name |-> x.name, args |-> x.args, inl |-> x.inl,
     text |-> text]

\* The tokenizer: joins the physical lines of each logical line, drops blank
\* lines, and fails on a line that does not tokenize or on a broken header.
RECURSIVE Tokenize(_, _, _)
Tokenize(phys, i, acc) ==
    IF i > Len(phys) THEN [ok |-> TRUE, ll |-> acc]
    ELSE LET x == phys[i] IN
         CASE x.k = "blank" -> Tokenize(phys, i + 1, acc)
           [] x.k = "stmt" ->
                Tokenize(phys, i + 1,
                         Append(acc, LogicalLine("stmt", x.ind, i, i, x, "")))
           [] x.k = "hdr" ->
                IF x.part = 1 /\ HeaderComplete(phys, i)
                THEN Tokenize(phys, i + x.of,
                              Append(acc, LogicalLine("hdr", x.ind, i,
                                                      i + x.of - 1, x, "")))
                ELSE [ok |-> FALSE, ll |-> <<>>]
           [] x.k = "str" ->
                LET j == IF x.part = 1 THEN StrClose(phys, i, i) ELSE 0 IN
                IF j = 0 THEN [ok |-> FALSE, ll |-> <<>>]
                ELSE Tokenize(phys, j + 1,
                              Append(acc, LogicalLine("str", x.ind, i, j, x,
                                                      StrText(phys, i, j))))
           [] OTHER -> [ok |-> FALSE, ll |-> <<>>]

\* A node of the tree ast.parse returns.
Node(type, name, lineno, end_lineno, args, body, text) ==
    [type |-> type, name |-> name, lineno |-> lineno,
     end_lineno |-> end_lineno, args |-> args, body |-> body, text |-> text]

ParseFail == [ok |-> FALSE, nodes |-> <<>>, next |-> 0]

\* The node of a header whose body is the block `body`.
DefNode(x, body) ==
    Node(IF x.dk = "class" THEN "ClassDef" ELSE "FunctionDef", x.name,
         x.lineno, body[Len(body)].end_lineno, x.args, body, "")

\* The node of a logical line that holds a whole statement: a string literal
\* expression, another simple statement, or a header with its body on the
\* same line.
LeafNode(x) ==
    CASE x.k = "hdr" ->
           Node(IF x.dk = "class" THEN "ClassDef" ELSE "FunctionDef", x.name,
                x.lineno, x.last, x.args,
                <<Node("Pass", "", x.lineno, x.last, <<>>, <<>>, "")>>, "")
      [] x.k = "str" -> Node("Expr", "", x.lineno, x.last, <<>>, <<>>, x.text)
      [] OTHER -> Node("Pass", "", x.lineno, x.last, <<>>, <<>>, "")

\* The statement n followed by the rest r of its block.
Cons(n, r) ==
    IF ~r.ok THEN ParseFail
    ELSE [ok |-> TRUE, nodes |-> <<n>> \o r.nodes, next |-> r.next]

\* The statements of one block: the logical lines from index i on that are
\* indented by exactly `ind`.  A deeper line that no header introduces is an
\* "unexpected indent"; a line dedented to a level between two blocks is an
\* "unindent does not match"; a header without an indented body is an
\* "expected an indented block".
RECURSIVE ParseBlock(_, _, _)
RECURSIVE AfterBody(_, _, _, _)
ParseBlock(ll, i, ind) ==
    IF i > Len(ll) \/ ll[i].ind < ind
    THEN [ok |-> TRUE, nodes |-> <<>>, next |-> i]
    ELSE IF ll[i].ind > ind THEN ParseFail
    ELSE IF ll[i].k = "hdr" /\ ~ll[i].inl
         THEN IF i + 1 > Len(ll) \/ ll[i + 1].ind <= ll[i].ind THEN ParseFail
              ELSE AfterBody(ll, i, ind, ParseBlock(ll, i + 1, ll[i + 1].ind))
         ELSE Cons(LeafNode(ll[i]), ParseBlock(ll, i + 1, ind))

\* The header at i, whose body parsed to b, and the rest of the block.
AfterBody(ll, i, ind, b) ==
    IF ~b.ok THEN ParseFail
    ELSE Cons(DefNode(ll[i], b.nodes), ParseBlock(ll, b.next, ind))

ModuleOf(b) == [ok |-> b.ok, body |-> b.nodes]

ParseTokens(t) ==
    IF ~t.ok THEN [ok |-> FALSE, body |-> <<>>]
    ELSE ModuleOf(ParseBlock(t.ll, 1, 0))

\* ast.parse(source): the module's body, or a SyntaxError.
ast_parse(phys) == ParseTokens(Tokenize(phys, 1, <<>>))

\* ast.get_docstring(node): the cleaned text of the string literal that is
\* the first statement of the body, None when the first statement is no
\* string literal.
get_docstring(body) ==
    IF Len(body) > 0 /\ body[1].type = "Expr" THEN cleandoc(body[1].text)
    ELSE None

(* ------------------------------------------------------------------ *)
(* DocstringExtractor                                                 *)
(* ------------------------------------------------------------------ *)

\* DocstringExtractor.__init__: the empty inventory.
ExtractorInit ==
    [module |-> [docstring |-> None, line |-> 1, name |-> "Module"],
     classes |-> <<>>, functions |-> <<>>]

\* The parameter names without self and cls.
RECURSIVE FilterArgs(_)
FilterArgs(args) ==
    IF args = <<>> THEN <<>>
    ELSE IF args[1] \in {"self", "cls"} THEN FilterArgs(Tail(args))
         ELSE <<args[1]>> \o FilterArgs(Tail(args))

\* The record _visit_callable builds for a function.
func_info(node) ==
    [name |-> node.name, docstring |-> get_docstring(node.body),
     line |-> node.lineno, end_line |-> node.end_lineno,
     args |-> FilterArgs(node.args)]

\* The record visit_ClassDef builds for a class.
class_info(node) ==
    [name |-> node.name, docstring |-> get_docstring(node.body),
     line |-> node.lineno, end_line |-> node.end_lineno, methods |-> <<>>]

\* _visit_callable: the record of a function goes to the methods of the
\* current class (cur is its index in classes, 0 is None), or to the module's
\* functions when there is none.  The body of the function is not visited.
visit_callable(node, ents, cur) ==
    IF cur # 0
    THEN [ents EXCEPT !.classes[cur].methods = Append(@, func_info(node))]
    ELSE [ents EXCEPT !.functions = Append(@, func_info(node))]

\* generic_visit over a body.
RECURSIVE generic_visit(_, _, _)
RECURSIVE visit_ClassDef(_, _)
generic_visit(body, ents, cur) ==
    IF body = <<>> THEN ents
    ELSE CASE body[1].type = "ClassDef" ->
                generic_visit(Tail(body), visit_ClassDef(body[1], ents), cur)
           [] body[1].type = "FunctionDef" ->
                generic_visit(Tail(body), visit_callable(body[1], ents, cur),
                              cur)
           [] OTHER -> generic_visit(Tail(body), ents, cur)

\* visit_ClassDef: the class appends its record to classes and is the
\* current class while its body is visited; the caller goes on with the
\* class that was current before.
visit_ClassDef(node, ents) ==
    generic_visit(node.body,
                  [ents EXCEPT !.classes = Append(@, class_info(node))],
                  Len(ents.classes) + 1)

\* visit_Module: the module's docstring, then the module's body.
visit_Module(body) ==
    generic_visit(body,
                  [ExtractorInit EXCEPT !.module.docstring = get_docstring(body)],
                  0)

Extract(tree) ==
    IF tree.ok THEN [ok |-> TRUE, entities |-> visit_Module(tree.body)]
    ELSE [ok |-> FALSE, entities |-> ExtractorInit]

\* analyze_file on the content of a file: the inventory, or a SyntaxError.
analyze_file(phys) == Extract(ast_parse(phys))

(* ------------------------------------------------------------------ *)
(* get_entity_list                                                    *)
(* ------------------------------------------------------------------ *)

\* Python's truth value of a docstring: None and "" are false.
bool(docstring) == docstring \notin {None, ""}

EntityRecord(e, type) ==
    [Name |-> e.name, Type |-> type, StartLine |-> e.line,
     EndLine |-> e.end_line, HasDocstring |-> bool(e.docstring)]

RECURSIVE MethodRecords(_)
MethodRecords(methods) ==
    IF methods = <<>> THEN <<>>
    ELSE <<EntityRecord(methods[1], "Method")>> \o MethodRecords(Tail(methods))

RECURSIVE FunctionRecords(_)
FunctionRecords(functions) ==
    IF functions = <<>> THEN <<>>
    ELSE <<EntityRecord(functions[1], "Function")>>
         \o FunctionRecords(Tail(functions))

RECURSIVE ClassRecords(_)
ClassRecords(classes) ==
    IF classes = <<>> THEN <<>>
    ELSE <<EntityRecord(classes[1], "Class")>>
         \o MethodRecords(classes[1].methods)
         \o ClassRecords(Tail(classes))

\* The classes with their methods ahead of the functions.
get_entity_list_classes_first(entities) ==
    ClassRecords(entities.classes) \o FunctionRecords(entities.functions)

\* get_entity_list: the functions, then every class followed by its methods.
get_entity_list(entities) ==
    FunctionRecords(entities.functions) \o ClassRecords(entities.classes)

(* ------------------------------------------------------------------ *)
(* main_app.main: the metrics of the Docstring Coverage view          *)
(* ------------------------------------------------------------------ *)

\* round(num / den * 100, 1) in tenths of a percent.
Round1(num, den) ==
    IF 2 * ((num * 1000) % den) < den THEN (num * 1000) \div den
    ELSE IF 2 * ((num * 1000) % den) > den THEN (num * 1000) \div den + 1
    ELSE IF ((num * 1000) \div den) % 2 = 0 THEN (num * 1000) \div den
    ELSE (num * 1000) \div den + 1

\* The records of the functions and the methods.
func_entities(entity_list) ==
    SelectSeq(entity_list, LAMBDA e : e.Type \in {"Function", "Method"})

\* Total Functions, Documented, Undocumented and Coverage (%) as displayed.
main_metrics(entity_list) ==
    [total_funcs |-> Len(func_entities(entity_list)),
     documented |->
        Len(SelectSeq(func_entities(entity_list), LAMBDA e : e.HasDocstring)),
     undocumented |->
        Len(func_entities(entity_list))
        - Len(SelectSeq(func_entities(entity_list), LAMBDA e : e.HasDocstring)),
     coverage |->
        IF Len(func_entities(entity_list)) > 0
        THEN Round1(Len(SelectSeq(func_entities(entity_list),
                                  LAMBDA e : e.HasDocstring)),
                    Len(func_entities(entity_list)))
        ELSE 0]

(* ------------------------------------------------------------------ *)
(* generate_google_docstring                                          *)
(* ------------------------------------------------------------------ *)

\* The physical lines of the docstring block, each with the indentation the
\* prefix gives it and with the ':' the templates "Args:", "<arg>: ..." and
\* "Returns:" put on it.  The first line carries the title made from the name.
generate_google_docstring(name, args, is_class, indent) ==
    LET title == <<[colon |-> FALSE, text |-> name]>>
                 \o <<[colon |-> FALSE, text |-> ""]>>
        argsec == IF args # <<>>
                  THEN <<[colon |-> TRUE, text |-> "Args:"]>>
                       \o [i \in 1 .. Len(args) |->
                             [colon |-> TRUE, text |-> args[i]]]
                  ELSE <<>>
        retsec == IF ~is_class
                  THEN << [colon |-> FALSE, text |-> ""],
                          [colon |-> TRUE, text |-> "Returns:"],
                          [colon |-> FALSE, text |-> "Description"] >>
                  ELSE <<>>
        all == title \o argsec \o retsec \o <<[colon |-> FALSE, text |-> ""]>>
    IN [i \in 1 .. Len(all) |->
          StrLine(indent, i, Len(all), all[i].colon, all[i].text)]

\* The module's block: f'"""{basename.capitalize()} module."""\n', to which
\* the insertion adds "\n": the one-line literal and an empty line.
ModuleDocstring == <<StrLine(0, 1, 1, FALSE, "module."), BlankLine>>

(* ------------------------------------------------------------------ *)
(* generate_coverage_report                                           *)
(* ------------------------------------------------------------------ *)

\* A path that names no file.
NoFile == <<PLine("no file", 0, FALSE, 1, 1, "", "", <<>>, FALSE, "")>>

exists(content) == content # NoFile

\* round(num / den * 100, 2) in hundredths of a percent, rounding half to
\* even as Python's round does.
Round2(num, den) ==
    LET n == num * 10000
        q == n \div den
        r == n % den
    IN IF 2 * r < den THEN q
       ELSE IF 2 * r > den THEN q + 1
       ELSE IF q % 2 = 0 THEN q ELSE q + 1

\* check(item): one more entity, documented when its docstring is true.
check(stats, item) ==
    [total |-> stats.total + 1,
     documented |-> stats.documented + (IF bool(item.docstring) THEN 1 ELSE 0)]

RECURSIVE CheckAll(_, _)
CheckAll(stats, items) ==
    IF items = <<>> THEN stats
    ELSE CheckAll(check(stats, items[1]), Tail(items))

RECURSIVE CheckClasses(_, _)
CheckClasses(stats, classes) ==
    IF classes = <<>> THEN stats
    ELSE CheckClasses(CheckAll(check(stats, classes[1]), classes[1].methods),
                      Tail(classes))

\* The statistics of one file without the module itself.
file_stats_without_module(entities) ==
    CheckAll(CheckClasses([total |-> 0, documented |-> 0], entities.classes),
             entities.functions)

\* The statistics of one file: the module, every class with its methods,
\* every function.
file_stats(entities) ==
    CheckAll(CheckClasses(check([total |-> 0, documented |-> 0],
                                entities.module),
                          entities.classes),
             entities.functions)

\* The percentage of a (documented, total) pair, 0.0 when total is 0.
Coverage(documented, total) ==
    IF total > 0 THEN Round2(documented, total) ELSE 0

\* The report after the file at file_path, whose statistics are st.
AddFile(report, file_path, st) ==
    [report EXCEPT
       !.total_entities = @ + st.total,
       !.documented_entities = @ + st.documented,
       !.details = [p \in DOMAIN report.details \cup {file_path} |->
                      IF p = file_path
                      THEN [coverage |-> Coverage(st.documented, st.total),
                            stats |-> st]
                      ELSE report.details[p]]]

\* The loop over the files, from the i-th on.  A path that does not exist is
\* skipped; a file that does not parse raises out of the loop.
RECURSIVE ReportLoop(_, _, _, _)
RECURSIVE ReportFile(_, _, _, _, _)
ReportLoop(disk, files, i, report) ==
    IF i > Len(files) THEN [ok |-> TRUE, report |-> report]
    ELSE IF ~exists(disk[files[i]])
         THEN ReportLoop(disk, files, i + 1, report)
         ELSE ReportFile(disk, files, i, report, analyze_file(disk[files[i]]))

ReportFile(disk, files, i, report, a) ==
    IF ~a.ok THEN [ok |-> FALSE, report |-> report]
    ELSE ReportLoop(disk, files, i + 1,
                    AddFile(report, files[i], file_stats(a.entities)))

\* overall_coverage as the mean of the per-file percentages.
RECURSIVE SumCoverage(_, _)
SumCoverage(details, paths) ==
    IF paths = {} THEN 0
    ELSE details[CHOOSE p \in paths : TRUE].coverage
         + SumCoverage(details, paths \ {CHOOSE p \in paths : TRUE})

OverallMean(r) ==
    IF ~r.ok THEN r
    ELSE [ok |-> TRUE,
          report |-> [r.report EXCEPT !.overall_coverage =
                        IF DOMAIN r.report.details = {} THEN 0
                        ELSE SumCoverage(r.report.details,
                                         DOMAIN r.report.details)
                             \div Cardinality(DOMAIN r.report.details)]]

\* The last statement: overall_coverage from the summed counts.
Overall(r) ==
    IF ~r.ok THEN r
    ELSE [ok |-> TRUE,
          report |-> [r.report EXCEPT !.overall_coverage =
                        Coverage(r.report.documented_entities,
                                 r.report.total_entities)]]

\* generate_coverage_report(files): the report, or the SyntaxError of the
\* first file that does not parse.
generate_coverage_report(disk, files) ==
    Overall(ReportLoop(disk, files, 1,
                       [files_analyzed |-> Len(files), total_entities |-> 0,
                        documented_entities |-> 0, details |-> <<>>,
                        overall_coverage |-> 0]))

(* ------------------------------------------------------------------ *)
(* apply_missing_docstrings                                           *)
(* ------------------------------------------------------------------ *)

\* f.readlines(): one buffer element per physical line.  A buffer element is
\* a string, modelled as the sequence of the physical lines it holds.
readlines(phys) == [i \in 1 .. Len(phys) |-> <<phys[i]>>]

\* f.writelines(lines): the elements one after the other.
RECURSIVE writelines(_)
writelines(buf) ==
    IF buf = <<>> THEN <<>> ELSE buf[1] \o writelines(Tail(buf))

\* len(def_line) - len(def_line.lstrip())
LeadingSpaces(def_line) == def_line[1].ind

\* ":" in element
HasColon(element) == \E i \in 1 .. Len(element) : element[i].colon

\* The pending insertions of the callables of one list (the functions, or the
\* methods of a class) that have no docstring.
RECURSIVE CallablesToAdd(_, _)
CallablesToAdd(buf, fns) ==
    IF fns = <<>> THEN <<>>
    ELSE LET f == fns[1]
             indent == LeadingSpaces(buf[f.line])
         IN (IF ~bool(f.docstring)
             THEN <<[line |-> f.line,
                     doc |-> generate_google_docstring(f.name, f.args, FALSE,
                                                       indent + 4)]>>
             ELSE <<>>)
            \o CallablesToAdd(buf, Tail(fns))

RECURSIVE ClassesToAdd(_, _)
ClassesToAdd(buf, classes) ==
    IF classes = <<>> THEN <<>>
    ELSE LET cls == classes[1]
             indent == LeadingSpaces(buf[cls.line])
         IN (IF ~bool(cls.docstring)
             THEN <<[line |-> cls.line,
                     doc |-> generate_google_docstring(cls.name, <<>>, TRUE,
                                                       indent + 4)]>>
             ELSE <<>>)
            \o CallablesToAdd(buf, cls.methods)
            \o ClassesToAdd(buf, Tail(classes))

\* to_add before the sort: functions, classes with their methods, module.
CollectToAdd(buf, entities) ==
    CallablesToAdd(buf, entities.functions)
    \o ClassesToAdd(buf, entities.classes)
    \o (IF ~bool(entities.module.docstring)
        THEN <<[line |-> 0, doc |-> ModuleDocstring]>>
        ELSE <<>>)

\* to_add.sort(key=line, reverse=True): descending, and stable.
RECURSIVE InsertDesc(_, _)
InsertDesc(sorted, x) ==
    IF sorted = <<>> THEN <<x>>
    ELSE IF sorted[1].line >= x.line
         THEN <<sorted[1]>> \o InsertDesc(Tail(sorted), x)
         ELSE <<x>> \o sorted

\* The sort without reverse=True: ascending.
RECURSIVE InsertAsc(_, _)
InsertAsc(sorted, x) ==
    IF sorted = <<>> THEN <<x>>
    ELSE IF sorted[1].line <= x.line
         THEN <<sorted[1]>> \o InsertAsc(Tail(sorted), x)
         ELSE <<x>> \o sorted

RECURSIVE SortAsc(_, _)
SortAsc(acc, rest) ==
    IF rest = <<>> THEN acc
    ELSE SortAsc(InsertAsc(acc, rest[1]), Tail(rest))

RECURSIVE SortDesc(_, _)
SortDesc(acc, rest) ==
    IF rest = <<>> THEN acc
    ELSE SortDesc(InsertDesc(acc, rest[1]), Tail(rest))

\* The while loop: from curr_idx (0-based) forward to the first element that
\* contains ':', or to len(lines).
RECURSIVE ScanColon(_, _)
ScanColon(buf, curr_idx) ==
    IF curr_idx < Len(buf) /\ ~HasColon(buf[curr_idx + 1])
    THEN ScanColon(buf, curr_idx + 1)
    ELSE curr_idx

\* The 0-based index at which the pending insertion goes.
InsertIndex(buf, line_idx) ==
    IF line_idx = 0 THEN 0 ELSE ScanColon(buf, line_idx - 1) + 1

\* list.insert(idx, x): an index past the end appends.
ListInsert(buf, idx, x) ==
    LET at == IF idx > Len(buf) THEN Len(buf) ELSE idx IN
    SubSeq(buf, 1, at) \o <<x>> \o SubSeq(buf, at + 1, Len(buf))

(* ------------------------------------------------------------------ *)
(* The files the operations are run on                                *)
(* ------------------------------------------------------------------ *)

\* Most physical lines a declaration header is wrapped over.
MaxHeaderLines == 3

\* Most calls of apply_missing_docstrings in one run.
MaxApply == 2

\* Number of paths in a batch, and most paths in the list handed to
\* generate_coverage_report.
NumPaths == 3

MaxListLen == 2

\* The docstring a declaration of an input file starts with: none, the empty
\* literal, a literal with text.
DeclDocs == {None, "", "Doc."}

\* The same for the module, the whitespace-only literal included.
ModuleDocs == {None, " ", "Doc."}

DocLines(ind, d) == IF d = None THEN <<>> ELSE <<StrLine(ind, 1, 1, FALSE, d)>>

\* The shapes of a header of at most n physical lines: for each line whether
\* it contains a ':' (an annotation, a default value); the last line holds
\* the ':' that ends the header.
HeaderShapes(n) ==
    UNION {{s \in [1 .. k -> BOOLEAN] : s[k]} : k \in 1 .. n}

Header(dk, name, args, ind, shape) ==
    [i \in 1 .. Len(shape) |->
       HdrLine(dk, name, args, ind, i, Len(shape), shape[i], FALSE)]

\* def name(args): return 1   /   class name: pass
OneLiner(dk, name, args, ind) == <<HdrLine(dk, name, args, ind, 1, 1, TRUE, TRUE)>>

FunctionSources(name, args, ind, n, docs) ==
    {Header("def", name, args, ind, shape) \o DocLines(ind + 4, d)
       \o <<StmtLine(ind + 4)>> : shape \in HeaderShapes(n), d \in docs}
    \cup {OneLiner("def", name, args, ind)}

ClassBodies ==
    {<<StmtLine(4)>>}
    \cup FunctionSources("m1", <<"self", "x">>, 4, 2, DeclDocs)
    \cup {a \o b : a \in FunctionSources("m1", <<"self">>, 4, 1, {None, "Doc."}),
                   b \in FunctionSources("m2", <<"cls", "y">>, 4, 1, {None})}

ClassSources(name) ==
    {Header("class", name, <<>>, 0, <<TRUE>>) \o DocLines(4, d) \o body :
       d \in DeclDocs, body \in ClassBodies}
    \cup {OneLiner("class", name, <<>>, 0)}

\* Every declaration the model puts at module level, and a few plain ones to
\* stand beside it.
Decls(f, c) ==
    FunctionSources(f, <<"a", "b">>, 0, MaxHeaderLines, DeclDocs)
    \cup ClassSources(c)

SimpleDecls(f, c) ==
    FunctionSources(f, <<>>, 0, 1, {None, "Doc."})
    \cup {Header("class", c, <<>>, 0, <<TRUE>>) \o body :
            body \in FunctionSources("m1", <<"self">>, 4, 1, {None})}

ModuleHeads == {DocLines(0, d) : d \in ModuleDocs}

\* The contents of the one file of a single-file run.
SourceFiles ==
    ModuleHeads
    \cup {m \o x : m \in ModuleHeads, x \in Decls("f1", "C1")}
    \cup {m \o x \o y : m \in ModuleHeads, x \in Decls("f1", "C1"),
                        y \in SimpleDecls("f2", "C2")}
    \cup {m \o y \o x : m \in ModuleHeads, y \in SimpleDecls("f1", "C1"),
                        x \in Decls("f2", "C2")}

\* The contents of a path of a batch: no file, a file with a syntax error,
\* and parseable files with different (documented, total) counts.
BatchFiles ==
    { NoFile,
      <<StmtLine(0), BadLine>>,
      Header("def", "f1", <<"a">>, 0, <<TRUE>>) \o DocLines(4, "Doc.")
        \o <<StmtLine(4)>>
        \o Header("def", "add_numbers", <<"a", "b">>, 0, <<TRUE>>)
        \o <<StmtLine(4)>>,
      DocLines(0, "Doc.") \o Header("def", "g1", <<>>, 0, <<TRUE>>)
        \o DocLines(4, "Doc.") \o <<StmtLine(4)>> }

\* The lists of paths handed to generate_coverage_report.
FileLists(paths) ==
    UNION {[1 .. k -> paths] : k \in 0 .. MaxListLen}

(* ------------------------------------------------------------------ *)
(* State                                                              *)
(* ------------------------------------------------------------------ *)

VARIABLES
    fs,          \* path -> content of the file (NoFile: no such file)
    pc,          \* "idle", or "insert" inside apply_missing_docstrings
    path,        \* file_path of the running apply_missing_docstrings
    lines,       \* its buffer `lines`
    to_add,      \* its pending insertions, after the sort
    read_lines,  \* history: `lines` as readlines() returned it
    spliced,     \* history: the insertions applied so far, with their index
    result,      \* what the last call returned or raised
    hist         \* history: one record per call of apply_missing_docstrings

vars == <<fs, pc, path, lines, to_add, read_lines, spliced, result, hist>>

Result(op, arg, status, value) ==
    [op |-> op, arg |-> arg, status |-> status, value |-> value]

InitRest ==
    /\ pc = "idle"
    /\ path = 0
    /\ lines = <<>>
    /\ to_add = <<>>
    /\ read_lines = <<>>
    /\ spliced = <<>>
    /\ result = Result("none", <<>>, "ok", <<>>)
    /\ hist = <<>>

\* A run on one file.
Init ==
    /\ fs \in {[p \in {1} |-> f] : f \in SourceFiles}
    /\ InitRest

\* A run on a batch of paths.
InitBatch ==
    /\ fs \in [1 .. NumPaths -> BatchFiles]
    /\ InitRest

\* What opening and parsing the file at p raises ("ok": nothing).
AnalyzeStatus(p) ==
    IF ~exists(fs[p]) THEN "FileNotFoundError"
    ELSE IF ~analyze_file(fs[p]).ok THEN "SyntaxError"
    ELSE "ok"

(* ------------------------------------------------------------------ *)
(* Operations                                                         *)
(* ------------------------------------------------------------------ *)

EntityListResult(p, status) ==
    Result("get_entity_list", <<p>>, status,
           IF status = "ok" THEN get_entity_list(analyze_file(fs[p]).entities)
           ELSE <<>>)

\* get_entity_list(p)
GetEntityList(p) ==
    /\ pc = "idle"
    /\ result' = EntityListResult(p, AnalyzeStatus(p))
    /\ UNCHANGED <<fs, pc, path, lines, to_add, read_lines, spliced, hist>>

ReportResult(files, r) ==
    Result("generate_coverage_report", files,
           IF r.ok THEN "ok" ELSE "SyntaxError",
           IF r.ok THEN r.report ELSE <<>>)

\* generate_coverage_report(files)
GenerateCoverageReport(files) ==
    /\ pc = "idle"
    /\ result' = ReportResult(files, generate_coverage_report(fs, files))
    /\ UNCHANGED <<fs, pc, path, lines, to_add, read_lines, spliced, hist>>

\* apply_missing_docstrings(p) when analyze_file raises: nothing is written.
ApplyRaise(p) ==
    /\ pc = "idle"
    /\ Len(hist) < MaxApply
    /\ AnalyzeStatus(p) # "ok"
    /\ result' = Result("apply_missing_docstrings", <<p>>, AnalyzeStatus(p), <<>>)
    /\ hist' = Append(hist, [path |-> p, before |-> fs[p], ok |-> FALSE,
                             to_add |-> <<>>, after |-> fs[p]])
    /\ UNCHANGED <<fs, pc, path, lines, to_add, read_lines, spliced>>

\* to_add of apply_missing_docstrings on a file of the given content.
PendingInsertions(content) ==
    SortDesc(<<>>, CollectToAdd(readlines(content),
                                analyze_file(content).entities))

\* apply_missing_docstrings(p) up to the sort: the analysis, readlines(), the
\* collection of to_add and its sort.
ApplyStart(p) ==
    /\ pc = "idle"
    /\ Len(hist) < MaxApply
    /\ AnalyzeStatus(p) = "ok"
    /\ lines' = readlines(fs[p])
    /\ read_lines' = readlines(fs[p])
    /\ to_add' = PendingInsertions(fs[p])
    /\ hist' = Append(hist, [path |-> p, before |-> fs[p], ok |-> TRUE,
                             to_add |-> to_add', after |-> NoFile])
    /\ pc' = "insert"
    /\ path' = p
    /\ spliced' = <<>>
    /\ result' = Result("apply_missing_docstrings", <<p>>, "running", <<>>)
    /\ UNCHANGED fs

\* One iteration of the insertion loop.
ApplyInsert ==
    /\ pc = "insert"
    /\ to_add # <<>>
    /\ lines' = ListInsert(lines, InsertIndex(lines, Head(to_add).line),
                           Head(to_add).doc)
    /\ spliced' = Append(spliced,
                         [line |-> Head(to_add).line,
                          idx |-> InsertIndex(lines, Head(to_add).line)])
    /\ to_add' = Tail(to_add)
    /\ UNCHANGED <<fs, pc, path, read_lines, result, hist>>

\* The loop is over: the buffer replaces the file.
ApplyWrite ==
    /\ pc = "insert"
    /\ to_add = <<>>
    /\ fs' = [fs EXCEPT ![path] = writelines(lines)]
    /\ hist' = [hist EXCEPT ![Len(hist)].after = writelines(lines)]
    /\ result' = Result("apply_missing_docstrings", <<path>>, "ok", <<>>)
    /\ pc' = "idle"
    /\ path' = 0
    /\ lines' = <<>>
    /\ read_lines' = <<>>
    /\ spliced' = <<>>
    /\ UNCHANGED to_add

Next ==
    \/ \E p \in DOMAIN fs : GetEntityList(p)
    \/ \E files \in FileLists(DOMAIN fs) : GenerateCoverageReport(files)
    \/ \E p \in DOMAIN fs : ApplyRaise(p)
    \/ \E p \in DOMAIN fs : ApplyStart(p)
    \/ ApplyInsert
    \/ ApplyWrite

\* A run that only reads: entity lists and reports.
NextBatch ==
    \/ \E p \in DOMAIN fs : GetEntityList(p)
    \/ \E files \in FileLists(DOMAIN fs) : GenerateCoverageReport(files)

\* The operations on one file, in any order.
Spec == Init /\ [][Next]_vars

\* Entity lists and reports over a batch of paths.
SpecBatch == InitBatch /\ [][NextBatch]_vars

(* ------------------------------------------------------------------ *)
(* Vocabulary of the properties                                       *)
(* ------------------------------------------------------------------ *)

Abs(n) == IF n < 0 THEN -n ELSE n

Range(seq) == {seq[i] : i \in 1 .. Len(seq)}

RECURSIVE NamesOf(_)
NamesOf(items) ==
    IF items = <<>> THEN <<>> ELSE <<items[1].name>> \o NamesOf(Tail(items))

RECURSIVE ClassShapes(_)
ClassShapes(classes) ==
    IF classes = <<>> THEN <<>>
    ELSE <<[name |-> classes[1].name, methods |-> NamesOf(classes[1].methods)]>>
         \o ClassShapes(Tail(classes))

\* The names, kinds, nesting and order of the declarations of an inventory.
Skeleton(entities) ==
    [functions |-> NamesOf(entities.functions),
     classes |-> ClassShapes(entities.classes)]

RECURSIVE DocsOf(_)
DocsOf(items) ==
    IF items = <<>> THEN <<>>
    ELSE <<items[1].docstring>> \o DocsOf(Tail(items))

RECURSIVE ClassDocs(_)
ClassDocs(classes) ==
    IF classes = <<>> THEN <<>>
    ELSE <<classes[1].docstring>> \o DocsOf(classes[1].methods)
         \o ClassDocs(Tail(classes))

\* The docstrings of the module, the functions, and the classes each followed
\* by its methods.
Docstrings(entities) ==
    <<entities.module.docstring>> \o DocsOf(entities.functions)
    \o ClassDocs(entities.classes)

\* A call of apply_missing_docstrings that ran to its end.
Completed(h) == h.ok /\ h.after # NoFile

(* ------------------------------------------------------------------ *)
(* C1                                                                 *)
(* ------------------------------------------------------------------ *)

RoundTripOK(e0, a1) ==
    /\ a1.ok
    /\ Skeleton(a1.entities) = Skeleton(e0)
    /\ \A i \in 1 .. Len(Docstrings(e0)) :
          ~bool(Docstrings(e0)[i]) => bool(Docstrings(a1.entities)[i])

\* C1: after a call of apply_missing_docstrings on a file that parses, the
\* file parses again, the module and every class, method and function that
\* had no docstring has a non-empty one, and the names, kinds, nesting and
\* order of the declarations are what they were.  (Stated as claimed; the
\* code breaks it.)
C1_RoundTrip ==
    \A k \in 1 .. Len(hist) :
        Completed(hist[k]) =>
            RoundTripOK(analyze_file(hist[k].before).entities,
                        analyze_file(hist[k].after))

(* ------------------------------------------------------------------ *)
(* C2                                                                 *)
(* ------------------------------------------------------------------ *)

\* C2: of two calls of apply_missing_docstrings in a row on one file, the
\* first of which ran to its end, the second runs to its end as well, finds
\* nothing to add and writes back what the first call left.  (Stated as
\* claimed; the code breaks it.)
C2_Idempotent ==
    \A k \in 2 .. Len(hist) :
        (hist[k - 1].path = hist[k].path /\ Completed(hist[k - 1])) =>
            /\ hist[k].ok
            /\ hist[k].to_add = <<>>
            /\ hist[k].after \in {NoFile, hist[k - 1].after}

(* ------------------------------------------------------------------ *)
(* C3                                                                 *)
(* ------------------------------------------------------------------ *)

\* The number of physical lines of the header that starts at line `line`
\* (1-based) of the file as it was read.
HeaderLines(line) == read_lines[line][1].of

\* C3: every block of a class, method or function is spliced in right after
\* the last physical line of the declaration's header: for a header of k
\* lines that starts at line L, at the 0-based index L - 1 + k.  (Stated as
\* claimed; the code breaks it.)
C3_AfterLastHeaderLine ==
    \A i \in 1 .. Len(spliced) :
        spliced[i].line > 0 =>
            spliced[i].idx = spliced[i].line - 1 + HeaderLines(spliced[i].line)

(* ------------------------------------------------------------------ *)
(* C4, C5, C6                                                         *)
(* ------------------------------------------------------------------ *)

IsReport == result.op = "generate_coverage_report"

Parses(p) == exists(fs[p]) /\ analyze_file(fs[p]).ok

RECURSIVE Keep(_, _)
Keep(files, good) ==
    IF files = <<>> THEN <<>>
    ELSE (IF files[1] \in good THEN <<files[1]>> ELSE <<>>)
         \o Keep(Tail(files), good)

\* The counts and the per-file details of two reports agree.
SameCounts(v, w) ==
    /\ v.total_entities = w.total_entities
    /\ v.documented_entities = w.documented_entities
    /\ v.overall_coverage = w.overall_coverage
    /\ v.details = w.details

\* C4: a list of existing files of which some do not parse yields a report
\* all the same, and the report counts the files that parse as if the others
\* were not in the list.  (Stated as claimed; the code breaks it.)
C4_BatchIsolation ==
    (/\ IsReport
     /\ \A p \in Range(result.arg) : exists(fs[p])
     /\ \E p \in Range(result.arg) : ~Parses(p)) =>
        /\ result.status = "ok"
        /\ SameCounts(result.value,
                      generate_coverage_report(
                          fs, Keep(result.arg, {p \in DOMAIN fs : Parses(p)})).report)

\* C5: a path that names no file raises nothing, adds nothing to the counts,
\* has no entry in details and is not counted in files_analyzed.  (Stated as
\* claimed; the code breaks it.)
C5_MissingNotCounted ==
    (IsReport /\ \A p \in Range(result.arg) : ~exists(fs[p]) \/ Parses(p)) =>
        /\ result.status = "ok"
        /\ \A p \in DOMAIN result.value.details : exists(fs[p])
        /\ SameCounts(result.value,
                      generate_coverage_report(
                          fs, Keep(result.arg, {p \in DOMAIN fs : exists(fs[p])})).report)
        /\ result.value.files_analyzed
             = Cardinality({i \in 1 .. Len(result.arg) : exists(fs[result.arg[i]])})

\* The statistics of the file at p, from its own analysis.
StatsOf(p) == file_stats(analyze_file(fs[p]).entities)

RECURSIVE SumTotal(_)
SumTotal(paths) ==
    IF paths = {} THEN 0
    ELSE LET p == CHOOSE q \in paths : TRUE
         IN StatsOf(p).total + SumTotal(paths \ {p})

RECURSIVE SumDocumented(_)
SumDocumented(paths) ==
    IF paths = {} THEN 0
    ELSE LET p == CHOOSE q \in paths : TRUE
         IN StatsOf(p).documented + SumDocumented(paths \ {p})

\* h hundredths of a percent is documented / total * 100 rounded to two
\* decimals: no number of hundredths is nearer to the quotient.
IsRounded(h, documented, total) ==
    IF total = 0 THEN h = 0
    ELSE 2 * Abs(h * total - 10000 * documented) <= total

DistinctExistingParseable(files) ==
    /\ \A i, j \in 1 .. Len(files) : files[i] = files[j] => i = j
    /\ \A p \in Range(files) : Parses(p)

\* C6: for a list of distinct existing parseable files, total_entities and
\* documented_entities are the sums of the per-file counts over the set of
\* the files (so the order of the list does not matter), every file has its
\* own counts in details, and overall_coverage is the quotient of the two
\* sums as a percentage rounded to two decimals, 0.0 when the total is 0.
C6_Aggregation ==
    (IsReport /\ DistinctExistingParseable(result.arg)) =>
        /\ result.status = "ok"
        /\ result.value.total_entities = SumTotal(Range(result.arg))
        /\ result.value.documented_entities = SumDocumented(Range(result.arg))
        /\ IsRounded(result.value.overall_coverage,
                     SumDocumented(Range(result.arg)),
                     SumTotal(Range(result.arg)))
        /\ DOMAIN result.value.details = Range(result.arg)
        /\ \A p \in Range(result.arg) :
              result.value.details[p].stats = StatsOf(p)

\* A report over two files whose overall coverage is not the mean of the two
\* per-file percentages.
C6_Witness ==
    /\ IsReport
    /\ result.status = "ok"
    /\ Len(result.arg) = 2
    /\ DistinctExistingParseable(result.arg)
    /\ result.value.details[result.arg[1]].coverage
         + result.value.details[result.arg[2]].coverage
         # 2 * result.value.overall_coverage

(* ------------------------------------------------------------------ *)
(* C7                                                                 *)
(* ------------------------------------------------------------------ *)

\* The inventory of the scenario: no class, two functions, one of them
\* without a docstring and with two parameters, the other documented.
ScenarioInventory(e) ==
    /\ e.classes = <<>>
    /\ Len(e.functions) = 2
    /\ \E i, j \in 1 .. 2 :
          /\ i # j
          /\ e.functions[i].docstring = None
          /\ Len(e.functions[i].args) = 2
          /\ bool(e.functions[j].docstring)

ScenarioFile(p) == Parses(p) /\ ScenarioInventory(analyze_file(fs[p]).entities)

IsScenarioReport ==
    /\ IsReport
    /\ Len(result.arg) = 1
    /\ ScenarioFile(result.arg[1])

\* C7 as claimed: the report of the scenario file gives total = 2,
\* documented = 1 and coverage = 50.0.
C7_ScenarioAsClaimed ==
    IsScenarioReport =>
        result.value.details[result.arg[1]]
          = [coverage |-> 5000, stats |-> [total |-> 2, documented |-> 1]]

ModuleCount(p) ==
    IF bool(analyze_file(fs[p]).entities.module.docstring) THEN 1 ELSE 0

\* C7 as amended: generate_coverage_report counts the module too, so the
\* report of the scenario file gives total = 3 and documented = 1 with
\* coverage 33.33 when the module has no docstring, documented = 2 with
\* coverage 66.67 when it has one; total 2, documented 1, coverage 50.0 is
\* what main computes from the Function and Method records of
\* get_entity_list.
C7_ScenarioCountsModule ==
    /\ IsScenarioReport =>
          result.value.details[result.arg[1]]
            = [coverage |-> IF ModuleCount(result.arg[1]) = 1 THEN 6667 ELSE 3333,
               stats |-> [total |-> 3,
                          documented |-> 1 + ModuleCount(result.arg[1])]]
    /\ (/\ result.op = "get_entity_list"
        /\ ScenarioFile(result.arg[1])) =>
          main_metrics(result.value)
            = [total_funcs |-> 2, documented |-> 1, undocumented |-> 1,
               coverage |-> 500]

C7_Witness ==
    /\ IsScenarioReport
    /\ result.status = "ok"
    /\ ModuleCount(result.arg[1]) = 0

(* ------------------------------------------------------------------ *)
(* C8                                                                 *)
(* ------------------------------------------------------------------ *)

\* For each docstring of the sequence, whether the declaration's first
\* statement is a string literal (ast.get_docstring returns None exactly
\* when it is not).
RECURSIVE Literal(_)
Literal(docs) ==
    IF docs = <<>> THEN <<>> ELSE <<docs[1] # None>> \o Literal(Tail(docs))

RECURSIVE Flags(_)
Flags(entity_list) ==
    IF entity_list = <<>> THEN <<>>
    ELSE <<entity_list[1].HasDocstring>> \o Flags(Tail(entity_list))

CountTrue(flags) == Cardinality({i \in 1 .. Len(flags) : flags[i]})

\* C8: a declaration counts as documented exactly when the first statement
\* of its body is a string literal, whatever the literal holds: in the flags
\* of get_entity_list, in the documented count of generate_coverage_report,
\* and in what apply_missing_docstrings leaves alone.  (Stated as claimed;
\* the code breaks it.)
C8_LiteralIsDocumentation ==
    /\ (result.op = "get_entity_list" /\ result.status = "ok") =>
          Flags(result.value)
            = Tail(Literal(Docstrings(analyze_file(fs[result.arg[1]]).entities)))
    /\ (IsReport /\ result.status = "ok" /\ Len(result.arg) = 1
        /\ exists(fs[result.arg[1]])) =>
          result.value.documented_entities
            = CountTrue(Literal(Docstrings(
                          analyze_file(fs[result.arg[1]]).entities)))
    /\ \A k \in 1 .. Len(hist) :
          hist[k].ok =>
             Len(hist[k].to_add)
               = Len(Docstrings(analyze_file(hist[k].before).entities))
                 - CountTrue(Literal(Docstrings(
                                analyze_file(hist[k].before).entities)))

(* ------------------------------------------------------------------ *)
(* C9                                                                 *)
(* ------------------------------------------------------------------ *)

IsEntityList == result.op = "get_entity_list" /\ result.status = "ok"

Before(i, j) == i < j

\* C9 as claimed: the records of the module-level functions and classes come
\* in source order, by ascending start line.
C9_SourceOrderAsClaimed ==
    IsEntityList =>
        \A i, j \in 1 .. Len(result.value) :
            (/\ Before(i, j)
             /\ result.value[i].Type \in {"Function", "Class"}
             /\ result.value[j].Type \in {"Function", "Class"}) =>
                result.value[i].StartLine < result.value[j].StartLine

\* The declarations of a tree, read off the tree itself: the functions and
\* classes of the module's body and the functions of each class body.
TreeDecls(body) ==
    {<<body[i].name,
       IF body[i].type = "ClassDef" THEN "Class" ELSE "Function",
       body[i].lineno>> :
        i \in {n \in 1 .. Len(body) :
                 body[n].type \in {"ClassDef", "FunctionDef"}}}
    \cup UNION {{<<body[i].body[m].name, "Method", body[i].body[m].lineno>> :
                   m \in {n \in 1 .. Len(body[i].body) :
                            body[i].body[n].type = "FunctionDef"}} :
                i \in {n \in 1 .. Len(body) : body[n].type = "ClassDef"}}

\* The record of the class whose run of methods holds position j: the last
\* Class record before j.
OwnerIndex(v, j) ==
    CHOOSE c \in 0 .. j :
        /\ c = 0 \/ v[c].Type = "Class"
        /\ \A n \in (c + 1) .. (j - 1) : v[n].Type = "Method"

OrderedList(v, decls) ==
    /\ {<<v[i].Name, v[i].Type, v[i].StartLine>> : i \in 1 .. Len(v)} = decls
    /\ Len(v) = Cardinality(decls)
    /\ \A i, j \in 1 .. Len(v) :
          Before(i, j) =>
             /\ v[j].Type = "Function" => v[i].Type = "Function"
             /\ v[i].Type = v[j].Type /\ v[i].Type # "Method" =>
                   v[i].StartLine < v[j].StartLine
    /\ \A j \in 1 .. Len(v) :
          v[j].Type = "Method" =>
             /\ OwnerIndex(v, j) > 0
             /\ v[OwnerIndex(v, j)].StartLine < v[j].StartLine
             /\ v[j].StartLine <= v[OwnerIndex(v, j)].EndLine
             /\ v[j - 1].Type = "Method" =>
                   v[j - 1].StartLine < v[j].StartLine

\* C9 as amended: get_entity_list emits one record per declaration of the
\* tree: first the module-level functions in declaration order, then the
\* classes in declaration order, each class record followed at once by the
\* records of its own methods in declaration order.
C9_FunctionsThenClasses ==
    IsEntityList =>
        OrderedList(result.value, TreeDecls(ast_parse(fs[result.arg[1]]).body))

\* A list of a file that declares a class with a method before a function.
C9_Witness ==
    /\ IsEntityList
    /\ \E i, j, m \in 1 .. Len(result.value) :
          /\ result.value[i].Type = "Function"
          /\ result.value[j].Type = "Class"
          /\ result.value[m].Type = "Method"
          /\ result.value[j].StartLine < result.value[i].StartLine

(* ------------------------------------------------------------------ *)
(* C10                                                                *)
(* ------------------------------------------------------------------ *)

RECURSIVE LinesOf(_)
LinesOf(entries) ==
    IF entries = <<>> THEN <<>>
    ELSE <<entries[1].line>> \o LinesOf(Tail(entries))

\* The line numbers of the insertions in the order the loop applies them:
\* those applied so far, then those still pending.
ApplicationOrder == LinesOf(spliced) \o LinesOf(to_add)

\* C10: inside the insertion loop the insertions are applied in
\* non-increasing order of line number, the module's insertion (line 0) is
\* the last, and for every insertion still pending at a line L > 0 the
\* buffer element at index L - 1 is the header line that readlines() put
\* there, every insertion applied so far having gone in at an index of at
\* least L.
C10_IndexStability ==
    pc = "insert" =>
        /\ \A i, j \in 1 .. Len(ApplicationOrder) :
              Before(i, j) => ApplicationOrder[i] >= ApplicationOrder[j]
        /\ \A i \in 1 .. Len(ApplicationOrder) :
              ApplicationOrder[i] = 0 => i = Len(ApplicationOrder)
        /\ \A j \in 1 .. Len(to_add) :
              to_add[j].line > 0 =>
                 /\ lines[to_add[j].line] = read_lines[to_add[j].line]
                 /\ lines[to_add[j].line][1].k = "hdr"
                 /\ lines[to_add[j].line][1].part = 1
                 /\ \A i \in 1 .. Len(spliced) :
                       spliced[i].idx >= to_add[j].line

\* Inside the loop, after a first insertion, with another one pending at a
\* line above it.
C10_Witness ==
    /\ pc = "insert"
    /\ Len(spliced) >= 1
    /\ lines # read_lines
    /\ to_add # <<>>
    /\ Head(to_add).line > 0
    /\ Head(to_add).line < spliced[1].line

(* ------------------------------------------------------------------ *)
(* C11                                                                *)
(* ------------------------------------------------------------------ *)

\* Whether the elements of a occur in b, unchanged and in the order of a.
RECURSIVE IsSubsequence(_, _)
IsSubsequence(a, b) ==
    IF a = <<>> THEN TRUE
    ELSE IF b = <<>> THEN FALSE
    ELSE IF a[1] = b[1] THEN IsSubsequence(Tail(a), Tail(b))
    ELSE IsSubsequence(a, Tail(b))

\* The number of declarations (module, functions, classes, methods) of a
\* file whose body does not start with a string literal.
Lacking(content) ==
    Len(Docstrings(analyze_file(content).entities))
    - CountTrue(Literal(Docstrings(analyze_file(content).entities)))

\* The insertion loop is over: `lines` is what writelines() is given.
LoopOver == pc = "insert" /\ to_add = <<>>

\* C11: when apply_missing_docstrings writes the file, the sequence it
\* writes holds every element readlines() returned, unchanged and in the
\* original order, and one more element for each declaration (module, class,
\* method, function) that had no docstring, so that its length is the
\* original length plus the number of those declarations; the file written
\* holds every line of the original file in the original order.  (Stated as
\* claimed; the code breaks it.)
C11_NoDataLoss ==
    /\ LoopOver =>
          /\ IsSubsequence(read_lines, lines)
          /\ Len(lines) = Len(read_lines) + Lacking(fs[path])
    /\ \A k \in 1 .. Len(hist) :
          Completed(hist[k]) => IsSubsequence(hist[k].before, hist[k].after)

====
